---------------------------- MODULE Spec2Model ----------------------------
(***************************************************************************)
(* Model of the two maintenance scripts of the repository:                 *)
(*                                                                         *)
(*   src/fix_enum_decorators.py  the targeted decorator fixer              *)
(*                               (fix_file, main over FILES)               *)
(*   src/fix-ts-errors.py        the bulk fixer (main over rglob('*.ts'))  *)
(*                                                                         *)
(* Text is a sequence of lexemes ("atoms").  Every atom is a run of        *)
(* characters that no pattern of the scripts can split:                    *)
(*   - a word atom is a run of word characters ("import", "Foo", "Kind");  *)
(*     adjacent word atoms form ONE identifier, so BarKind is              *)
(*     <<"Bar","Kind">> and the text "@IsEnum(Bar" is a substring of       *)
(*     "@IsEnum(BarKind)" in the model exactly as it is in Python;         *)
(*   - a whitespace atom is a single whitespace character;                 *)
(*   - a quoted atom is a whole quoted module name;                        *)
(*   - punctuation atoms are single characters;                            *)
(*   - an opaque atom is generated text that starts and ends with a        *)
(*     non-word, non-space character and holds no ';', '}', quote or any   *)
(*     literal the scripts search for.                                     *)
(* Substring tests, str.replace, re.search, re.finditer and re.sub are     *)
(* computed on atoms the way Python computes them on characters.           *)
(***************************************************************************)
EXTENDS Naturals, Sequences, FiniteSets

\* ------------------------------------------------------------------ bounds
\* Decorator usages per generated input file.
MaxUsages == 2
\* Entries of FILES in the batch specification (13 in the source).
NumFiles == 3
\* Invocations of main() of the targeted fixer on the same tree.
MaxRuns == 2
\* Directory entries under the bulk fixer's base path.
MaxTree == 3

\* ------------------------------------------------------------------ atoms
WsAtoms == {" ", "\n"}

WordAtoms == {"import", "from", "const", "IsEnum", "IsIn", "IsString",
              "Foo", "Bar", "Kind", "Values", "each", "true", "false", "x"}

QuotedAtoms == {"'@prisma/client'", "'class-validator'"}

IsWs(a) == a \in WsAtoms

IsWordAtom(a) == a \in WordAtoms

Min(S) == CHOOSE x \in S : \A y \in S : x <= y

\* ------------------------------------------------------- string primitives
\* s[i..] starts with pat
OccursAt(s, pat, i) ==
    /\ i >= 1
    /\ i + Len(pat) - 1 <= Len(s)
    /\ \A k \in 1..Len(pat) : s[i + k - 1] = pat[k]

\* Python: pat in s
Occurs(s, pat) == \E i \in 1..(Len(s) + 1) : OccursAt(s, pat, i)

\* Python: s.find(pat) + 1 (0 when absent)
FirstOcc(s, pat) ==
    LET S == {i \in 1..(Len(s) + 1) : OccursAt(s, pat, i)}
    IN  IF S = {} THEN 0 ELSE Min(S)

\* s[:i-1] + rep + s[j+1:]  (replace s[i..j] by rep)
Splice(s, i, j, rep) == SubSeq(s, 1, i - 1) \o rep \o SubSeq(s, j + 1, Len(s))

\* Python: s.replace(pat, rep, 1)
ReplaceFirst(s, pat, rep) ==
    LET i == FirstOcc(s, pat)
    IN  IF i = 0 \/ pat = <<>> THEN s ELSE Splice(s, i, i + Len(pat) - 1, rep)

\* the text from i on with every occurrence of pat replaced: the leftmost
\* occurrence at or after i, then on from its end
RECURSIVE ReplaceAllFrom(_, _, _, _)
ReplaceAllFrom(s, pat, rep, i) ==
    LET S == {j \in i..Len(s) : OccursAt(s, pat, j)}
    IN  IF S = {} THEN SubSeq(s, i, Len(s))
        ELSE SubSeq(s, i, Min(S) - 1) \o rep
               \o ReplaceAllFrom(s, pat, rep, Min(S) + Len(pat))

\* Python: s.replace(pat, rep) for a non-empty pat; also re.sub of a literal
ReplaceAll(s, pat, rep) == ReplaceAllFrom(s, pat, rep, 1)

\* regex \s* from position i: the index of the first non-whitespace atom
RECURSIVE SkipWs(_, _)
SkipWs(s, i) ==
    IF i <= Len(s) /\ IsWs(s[i]) THEN SkipWs(s, i + 1) ELSE i

\* index of the first atom a at or after i, 0 when there is none
RECURSIVE FindAtom(_, _, _)
FindAtom(s, a, i) ==
    IF i > Len(s) THEN 0
    ELSE IF s[i] = a THEN i ELSE FindAtom(s, a, i + 1)

At(s, i) == IF i >= 1 /\ i <= Len(s) THEN s[i] ELSE "<eof>"

\* Python: s.strip()
RECURSIVE StripLeft(_)
StripLeft(s) == IF s # <<>> /\ IsWs(Head(s)) THEN StripLeft(Tail(s)) ELSE s

RECURSIVE StripRight(_)
StripRight(s) ==
    IF s # <<>> /\ IsWs(s[Len(s)]) THEN StripRight(SubSeq(s, 1, Len(s) - 1)) ELSE s

Strip(s) == StripRight(StripLeft(s))

\* Python: s.split(',')
RECURSIVE Split(_)
Split(s) ==
    LET c == FindAtom(s, ",", 1)
    IN  IF c = 0 THEN <<s>>
        ELSE <<SubSeq(s, 1, c - 1)>> \o Split(SubSeq(s, c + 1, Len(s)))


\* index of the last non-whitespace atom at or before i (0 when there is none)
RECURSIVE BackWs(_, _)
BackWs(s, i) ==
    IF i >= 1 /\ IsWs(s[i]) THEN BackWs(s, i - 1) ELSE i

\* -------------------------------------------------- fix_file: the patterns
NoMatch == [ok |-> FALSE, start |-> 0, lbrace |-> 0, rbrace |-> 0, end |-> 0]

\* import\s*{([^}]+)}\s*from\s*<module>  tried at position i.
\* \s* and [^}]+ are greedy and each is followed by an atom outside its
\* class, so there is one way to match from a given start.
ImportListMatchAt(s, i, module) ==
    LET j == SkipWs(s, i + 1)
        k == FindAtom(s, "}", j + 1)
        m == SkipWs(s, k + 1)
        n == SkipWs(s, m + 1)
    IN  IF /\ At(s, i) = "import"
           /\ At(s, j) = "{"
           /\ k > j + 1
           /\ At(s, m) = "from"
           /\ At(s, n) = module
        THEN [ok |-> TRUE, start |-> i, lbrace |-> j, rbrace |-> k, end |-> n]
        ELSE NoMatch

\* re.search(r"import\s*{([^}]+)}\s*from\s*'@prisma/client'", content)
prisma_import_match(content) ==
    LET S == {i \in 1..Len(content) :
                ImportListMatchAt(content, i, "'@prisma/client'").ok}
    IN  IF S = {} THEN NoMatch
        ELSE ImportListMatchAt(content, Min(S), "'@prisma/client'")

\* [name.strip() for name in group(1).split(',')]
prisma_enums(content) ==
    LET m  == prisma_import_match(content)
        g1 == SubSeq(content, m.lbrace + 1, m.rbrace - 1)
        parts == Split(g1)
    IN  [p \in 1..Len(parts) |-> Strip(parts[p])]

IsEnumOpen == <<"@", "IsEnum", "(">>

\* f"@IsEnum({enum_name}" in content: a substring test, no word boundary
UsedWithIsEnum(content, enum_name) == Occurs(content, IsEnumOpen \o enum_name)

\* enums_to_fix: the imported names used with @IsEnum, in import order
enums_to_fix(content) ==
    SelectSeq(prisma_enums(content), LAMBDA n : UsedWithIsEnum(content, n))

\* re.search(r'\bIsIn\b', content)
IsInReferenced(content) ==
    \E i \in 1..Len(content) :
        /\ content[i] = "IsIn"
        /\ ~IsWordAtom(At(content, i - 1))
        /\ ~IsWordAtom(At(content, i + 1))

\* re.search(r"(import\s*{[^}]+})\s*from\s*'class-validator';", content)
validator_import_match(content) ==
    LET S == {i \in 1..Len(content) :
                /\ ImportListMatchAt(content, i, "'class-validator'").ok
                /\ At(content, ImportListMatchAt(content, i, "'class-validator'").end + 1) = ";"}
    IN  IF S = {} THEN NoMatch
        ELSE LET m == ImportListMatchAt(content, Min(S), "'class-validator'")
             IN  [m EXCEPT !.end = m.end + 1]

OldImportTail == <<"}", " ", "from", " ", "'class-validator'", ";">>

NewImportTail == <<" ", " ", "IsIn", ",", "\n", "}", " ", "from", " ", "'class-validator'", ";">>

\* old_import.replace("} from 'class-validator';", "  IsIn,\n} from 'class-validator';")
new_import(old_import) == ReplaceAll(old_import, OldImportTail, NewImportTail)

\* Step 1: add IsIn to the class-validator import if IsIn is not referenced
Step1(content) ==
    IF IsInReferenced(content) THEN content
    ELSE LET m == validator_import_match(content)
         IN  IF ~m.ok THEN content
             ELSE LET old_import == SubSeq(content, m.start, m.end)
                  IN  ReplaceFirst(content, old_import, new_import(old_import))

\* import\s+[^;]+from\s+['\"][^'\"]+['\"];  tried at position i: the end of
\* the match, 0 when there is none.  [^;]+ cannot cross a ';', so the match
\* ends at the first ';' after the leading whitespace; before it stand a
\* quoted atom, whitespace (\s+) and "from", and between "import" and "from"
\* at least one whitespace character (\s+) and one more character ([^;]+).
ImportStmtMatchEnd(s, i) ==
    LET e == FindAtom(s, ";", i + 2)
        q == e - 1
        f == BackWs(s, q - 1)
    IN  IF /\ At(s, i) = "import"
           /\ IsWs(At(s, i + 1))
           /\ e # 0
           /\ At(s, q) \in QuotedAtoms
           /\ IsWs(At(s, q - 1))
           /\ At(s, f) = "from"
           /\ f >= i + 3
        THEN e ELSE 0

\* for match in re.finditer(...): last_import_match = match
\* (successive non-overlapping matches, left to right); 0 when none
RECURSIVE last_import_end(_, _, _)
last_import_end(s, i, last) ==
    LET S == {j \in i..Len(s) : ImportStmtMatchEnd(s, j) # 0}
    IN  IF S = {} THEN last
        ELSE last_import_end(s, ImportStmtMatchEnd(s, Min(S)) + 1,
                             ImportStmtMatchEnd(s, Min(S)))

ConstComment == "// Define values for validation"

ConstName(enum_name) == <<"const", " ">> \o enum_name \o <<"Values">>

\* f"const {enum_name}Values = Object.values({enum_name}) as string[];\n"
ConstDecl(enum_name) ==
    ConstName(enum_name) \o <<" ", "= Object.values(">> \o enum_name
        \o <<") as string[]", ";", "\n">>

\* mutant: the test for a constant that is already declared is dropped
LacksConst_Unchecked(content, enum_name) == TRUE

\* f"const {enum_name}Values" not in content
LacksConst(content, enum_name) == ~Occurs(content, ConstName(enum_name))

\* the loop of lines 81-84: every test reads the content as it was before
\* the insertion
RECURSIVE constants(_, _)
constants(content, enums) ==
    IF enums = <<>> THEN <<>>
    ELSE (IF LacksConst(content, Head(enums)) THEN ConstDecl(Head(enums)) ELSE <<>>)
         \o constants(content, Tail(enums))

\* Step 2: insert the value constants after the last import statement
Step2(content, enums) ==
    LET insert_pos == last_import_end(content, 1, 0)
        consts == <<"\n", ConstComment, "\n">> \o constants(content, enums)
    IN  IF insert_pos = 0 THEN content
        ELSE IF Strip(consts) # <<ConstComment>>
             THEN SubSeq(content, 1, insert_pos) \o consts
                    \o SubSeq(content, insert_pos + 1, Len(content))
             ELSE content

\* re.sub(rf'@IsEnum\({enum_name}\)', f'@IsIn({enum_name}Values)', content)
SubSimple(content, enum_name) ==
    ReplaceAll(content,
               IsEnumOpen \o enum_name \o <<")">>,
               <<"@", "IsIn", "(">> \o enum_name \o <<"Values", ")">>)

\* mutant: the array pattern without its \s*, so only {each:true} matches
ArrayMatchEnd_NoSpace(s, i, enum_name) ==
    IF OccursAt(s, IsEnumOpen \o enum_name \o <<",", "{", "each", ":", "true", "}", ")">>, i)
    THEN i + 9 + Len(enum_name) ELSE 0

\* @IsEnum\({enum_name},\s*{\s*each:\s*true\s*}\)  tried at position i: the
\* end of the match, 0 when there is none
ArrayMatchEnd(s, i, enum_name) ==
    LET c  == i + 3 + Len(enum_name)
        lb == SkipWs(s, c + 1)
        ea == SkipWs(s, lb + 1)
        tr == SkipWs(s, ea + 2)
        rb == SkipWs(s, tr + 1)
    IN  IF /\ OccursAt(s, IsEnumOpen \o enum_name \o <<",">>, i)
           /\ At(s, lb) = "{"
           /\ At(s, ea) = "each"
           /\ At(s, ea + 1) = ":"
           /\ At(s, tr) = "true"
           /\ At(s, rb) = "}"
           /\ At(s, rb + 1) = ")"
        THEN rb + 1 ELSE 0

\* f'@IsIn({enum_name}Values, {{ each: true }})'
ArrayReplacement(enum_name) ==
    <<"@", "IsIn", "(">> \o enum_name
        \o <<"Values", ",", " ", "{", " ", "each", ":", " ", "true", " ", "}", ")">>

\* the text from i on with every match replaced: the leftmost match at or
\* after i, then on from its end
RECURSIVE SubArrayFrom(_, _, _)
SubArrayFrom(s, i, enum_name) ==
    LET S == {j \in i..Len(s) : ArrayMatchEnd(s, j, enum_name) # 0}
    IN  IF S = {} THEN SubSeq(s, i, Len(s))
        ELSE SubSeq(s, i, Min(S) - 1) \o ArrayReplacement(enum_name)
               \o SubArrayFrom(s, ArrayMatchEnd(s, Min(S), enum_name) + 1, enum_name)

\* re.sub of the array case
SubArray(content, enum_name) == SubArrayFrom(content, 1, enum_name)

\* Step 3: for enum_name in enums_to_fix: simple case, then array case
RECURSIVE Step3(_, _)
Step3(content, enums) ==
    IF enums = <<>> THEN content
    ELSE Step3(SubArray(SubSimple(content, Head(enums)), Head(enums)), Tail(enums))

\* the edits of lines 55-102 on a content that passed the skip checks
EditContent(content) ==
    LET enums == enums_to_fix(content)
    IN  Step3(Step2(Step1(content), enums), enums)

\* mutant: the last skip check returns True, so main() counts the file
fix_content_CountsSkip(content) ==
    IF ~Occurs(content, <<"from", " ", "'@prisma/client'">>)
    THEN [ret |-> FALSE, msg |-> "SKIP: no Prisma imports", write |-> FALSE, content |-> content]
    ELSE IF ~prisma_import_match(content).ok
    THEN [ret |-> FALSE, msg |-> "SKIP: no Prisma enum imports", write |-> FALSE, content |-> content]
    ELSE IF enums_to_fix(content) = <<>>
    THEN [ret |-> TRUE, msg |-> "SKIP: no @IsEnum with Prisma enums", write |-> FALSE, content |-> content]
    ELSE [ret |-> TRUE, msg |-> "FIXED", write |-> TRUE, content |-> EditContent(content)]

\* fix_file after read_text: the skip checks of lines 31-53, then the edits.
\* write: whether line 105 is reached; ret: the return value.
fix_content(content) ==
    IF ~Occurs(content, <<"from", " ", "'@prisma/client'">>)
    THEN [ret |-> FALSE, msg |-> "SKIP: no Prisma imports", write |-> FALSE, content |-> content]
    ELSE IF ~prisma_import_match(content).ok
    THEN [ret |-> FALSE, msg |-> "SKIP: no Prisma enum imports", write |-> FALSE, content |-> content]
    ELSE IF enums_to_fix(content) = <<>>
    THEN [ret |-> FALSE, msg |-> "SKIP: no @IsEnum with Prisma enums", write |-> FALSE, content |-> content]
    ELSE [ret |-> TRUE, msg |-> "FIXED", write |-> TRUE, content |-> EditContent(content)]

\* ------------------------------------------------------------ input files
\* Source lines the generated input files are built from.
ValidatorLine(names, gap, semi) ==
    <<"import", " ", "{", " ">> \o names \o <<" ", "}">> \o gap
        \o <<"from", " ", "'class-validator'">> \o semi \o <<"\n">>

ValidatorLines ==
    { <<>>,
      \* import { IsEnum } from 'class-validator';
      ValidatorLine(<<"IsEnum">>, <<" ">>, <<";">>),
      \* import { IsEnum, IsIn } from 'class-validator';
      ValidatorLine(<<"IsEnum", ",", " ", "IsIn">>, <<" ">>, <<";">>),
      \* import { IsEnum }  from 'class-validator';   (two spaces)
      ValidatorLine(<<"IsEnum">>, <<" ", " ">>, <<";">>),
      \* import { IsEnum } from 'class-validator'     (no semicolon)
      ValidatorLine(<<"IsEnum">>, <<" ">>, <<>>) }

PrismaTail == <<"from", " ", "'@prisma/client'", ";", "\n">>

PrismaLines ==
    { <<>>,
      \* import { Foo, Bar } from '@prisma/client';
      <<"import", " ", "{", " ", "Foo", ",", " ", "Bar", " ", "}", " ">> \o PrismaTail,
      \* import { Bar, BarKind } from '@prisma/client';
      <<"import", " ", "{", " ", "Bar", ",", " ", "Bar", "Kind", " ", "}", " ">> \o PrismaTail,
      \* import{Foo} from '@prisma/client';
      <<"import", "{", "Foo", "}", " ">> \o PrismaTail,
      \* import Foo from '@prisma/client';
      <<"import", " ", "Foo", " ">> \o PrismaTail,
      \* import { Foo,\n} from '@prisma/client';       (trailing comma)
      <<"import", " ", "{", " ", "Foo", ",", "\n", "}", " ">> \o PrismaTail }

PreConsts == { <<>>, ConstDecl(<<"Foo">>) }

EachObject(a, b, v) ==
    <<",">> \o a \o <<"{">> \o b \o <<"each", ":">> \o a \o <<v>> \o b \o <<"}">>

Usages ==
    << \* @IsEnum(Foo)
       IsEnumOpen \o <<"Foo", ")", "\n">>,
       \* @IsEnum(Foo, { each: true })
       IsEnumOpen \o <<"Foo">> \o EachObject(<<" ">>, <<" ">>, "true") \o <<")", "\n">>,
       \* @IsEnum(Foo,{each:true})
       IsEnumOpen \o <<"Foo">> \o EachObject(<<>>, <<>>, "true") \o <<")", "\n">>,
       \* @IsEnum(Foo, { each: false })
       IsEnumOpen \o <<"Foo">> \o EachObject(<<" ">>, <<" ">>, "false") \o <<")", "\n">>,
       \* @IsEnum(BarKind)
       IsEnumOpen \o <<"Bar", "Kind", ")", "\n">>,
       \* @IsEnum(Bar)
       IsEnumOpen \o <<"Bar", ")", "\n">>,
       \* @IsIn(FooValues)
       <<"@", "IsIn", "(", "Foo", "Values", ")", "\n">> >>

RECURSIVE Flatten(_)
Flatten(ss) == IF ss = <<>> THEN <<>> ELSE Head(ss) \o Flatten(Tail(ss))

\* up to MaxUsages usages, listed in the order of Usages
UsageLists ==
    UNION { { [k \in 1..n |-> Usages[u[k]]] :
                u \in { v \in [1..n -> 1..Len(Usages)] :
                          \A k \in 1..(n - 1) : v[k] <= v[k + 1] } } :
            n \in 0..MaxUsages }

\* the input files of the single-file specification
InputFiles ==
    { v \o p \o k \o Flatten(us) :
        v \in ValidatorLines, p \in PrismaLines, k \in PreConsts, us \in UsageLists }

File(content) == [exists |-> TRUE, content |-> content]

\* a path of FILES that is not on disk
Missing == [exists |-> FALSE, content |-> <<>>]

\* the input files of the batch specification: one per outcome of fix_file
BatchFiles ==
    { \* fixable: class-validator import, Prisma import, @IsEnum(Foo)
      ValidatorLine(<<"IsEnum">>, <<" ">>, <<";">>)
        \o <<"import", " ", "{", " ", "Foo", ",", " ", "Bar", " ", "}", " ">> \o PrismaTail
        \o IsEnumOpen \o <<"Foo", ")", "\n">>,
      \* no Prisma import
      ValidatorLine(<<"IsEnum">>, <<" ">>, <<";">>),
      \* Prisma import without a name list
      <<"import", " ", "Foo", " ">> \o PrismaTail,
      \* Prisma name list, no @IsEnum usage
      <<"import", " ", "{", " ", "Foo", ",", " ", "Bar", " ", "}", " ">> \o PrismaTail,
      \* IsIn imported, constant declared, @IsEnum only in an unsupported shape
      ValidatorLine(<<"IsEnum", ",", " ", "IsIn">>, <<" ">>, <<";">>)
        \o <<"import", " ", "{", " ", "Foo", ",", " ", "Bar", " ", "}", " ">> \o PrismaTail
        \o ConstDecl(<<"Foo">>)
        \o IsEnumOpen \o <<"Foo">> \o EachObject(<<" ">>, <<" ">>, "false") \o <<")", "\n">> }

\* ------------------------------------------------------------------ state
VARIABLES
    fs,       \* targeted fixer: FILES index -> [exists, content], the disk
    fs0,      \* the disk before the first run (history, never changed)
    idx,      \* position of main()'s loop in FILES
    fixed,    \* main()'s counter
    out,      \* standard output of the current run
    pc,       \* "loop", "done", "aborted" ("off" while the bulk fixer runs)
    runs,     \* invocations of main() so far
    calls,    \* per file: calls of fix_file that returned
    writes,   \* per file: calls of path.write_text that succeeded
    err,      \* the call whose exception ended the run ("none" if none did)
    tree,     \* bulk fixer: the entries under base_path
    pending,  \* entries rglob('*.ts') has still to yield
    opened,   \* entries passed to open(ts_file, 'r')
    wopened,  \* entries passed to open(ts_file, 'w')
    bout,     \* bulk fixer: standard output
    berr,     \* bulk fixer: standard error
    bpc       \* "loop", "done", "aborted" ("off" while the targeted fixer runs)

tvars == <<fs, fs0, idx, fixed, out, pc, runs, calls, writes, err>>

bvars == <<tree, pending, opened, wopened, bout, berr, bpc>>

vars == <<fs, fs0, idx, fixed, out, pc, runs, calls, writes, err,
          tree, pending, opened, wopened, bout, berr, bpc>>

\* ------------------------------------------------- targeted fixer: fix_file
\* fix_file(filepath) on the file at that path, up to the write
fix_file(file) ==
    IF ~file.exists
    THEN [ret |-> FALSE, msg |-> "SKIP: not found", write |-> FALSE, content |-> <<>>]
    ELSE fix_content(file.content)

Line(kind, file, msg, n) == [kind |-> kind, file |-> file, msg |-> msg, n |-> n]

\* print(f"SKIP: {filepath} (...)") / print(f"FIXED: {filepath}")
StatusLine(file, r) ==
    Line(IF r.msg = "FIXED" THEN "FIXED" ELSE "SKIP", file, r.msg, 0)

\* mutant: the exception is caught per file and the loop goes on
OnFileError_Caught(i) == [pc |-> "loop", idx |-> i + 1]

\* an exception raised inside fix_file leaves main(): nothing catches it
OnFileError(i) == [pc |-> "aborted", idx |-> i]

BulkOff ==
    /\ tree = {} /\ pending = {} /\ opened = {} /\ wopened = {}
    /\ bout = <<>> /\ berr = <<>> /\ bpc = "off"

TargetedStart ==
    /\ fs0 = fs
    /\ idx = 1 /\ fixed = 0 /\ out = <<>> /\ pc = "loop" /\ runs = 1
    /\ calls = [f \in DOMAIN fs |-> 0]
    /\ writes = [f \in DOMAIN fs |-> 0]
    /\ err = "none"
    /\ BulkOff

\* FILES with NumFiles entries, each missing or one of BatchFiles
Init ==
    /\ fs \in [1..NumFiles -> {Missing} \cup {File(c) : c \in BatchFiles}]
    /\ TargetedStart

\* FILES with one entry, a file of InputFiles
InitFile ==
    /\ fs \in [{1} -> {File(c) : c \in InputFiles}]
    /\ TargetedStart

InLoop == pc = "loop" /\ idx \in DOMAIN fs

\* fix_file returns without writing (a SKIP line)
FixSkips ==
    /\ InLoop
    /\ LET r == fix_file(fs[idx])
       IN  /\ ~r.write
           /\ out' = Append(out, StatusLine(idx, r))
           /\ fixed' = IF r.ret THEN fixed + 1 ELSE fixed
    /\ calls' = [calls EXCEPT ![idx] = @ + 1]
    /\ idx' = idx + 1
    /\ UNCHANGED <<fs, fs0, pc, runs, writes, err>>
    /\ UNCHANGED bvars

\* fix_file passes the skip checks, edits, writes back, prints FIXED
FixWrites ==
    /\ InLoop
    /\ LET r == fix_file(fs[idx])
       IN  /\ r.write
           /\ fs' = [fs EXCEPT ![idx].content = r.content]
           /\ out' = Append(out, StatusLine(idx, r))
           /\ fixed' = IF r.ret THEN fixed + 1 ELSE fixed
    /\ writes' = [writes EXCEPT ![idx] = @ + 1]
    /\ calls' = [calls EXCEPT ![idx] = @ + 1]
    /\ idx' = idx + 1
    /\ UNCHANGED <<fs0, pc, runs, err>>
    /\ UNCHANGED bvars

\* path.read_text raises (permissions, not UTF-8)
ReadFails ==
    /\ InLoop
    /\ fs[idx].exists
    /\ pc' = OnFileError(idx).pc
    /\ idx' = OnFileError(idx).idx
    /\ err' = "read_text"
    /\ UNCHANGED <<fs, fs0, fixed, out, runs, calls, writes>>
    /\ UNCHANGED bvars

\* path.write_text raises on opening the file (read-only file)
WriteFails ==
    /\ InLoop
    /\ fix_file(fs[idx]).write
    /\ pc' = OnFileError(idx).pc
    /\ idx' = OnFileError(idx).idx
    /\ err' = "write_text"
    /\ UNCHANGED <<fs, fs0, fixed, out, runs, calls, writes>>
    /\ UNCHANGED bvars

\* the loop is over: print(f"\nFixed {fixed} files!")
PrintSummary ==
    /\ pc = "loop"
    /\ idx \notin DOMAIN fs
    /\ out' = Append(out, Line("SUMMARY", 0, "Fixed N files!", fixed))
    /\ pc' = "done"
    /\ UNCHANGED <<fs, fs0, idx, fixed, runs, calls, writes, err>>
    /\ UNCHANGED bvars

\* the script is run again on the same tree
RunAgain ==
    /\ pc \in {"done", "aborted"}
    /\ runs < MaxRuns
    /\ runs' = runs + 1
    /\ idx' = 1 /\ fixed' = 0 /\ out' = <<>> /\ pc' = "loop" /\ err' = "none"
    /\ UNCHANGED <<fs, fs0, calls, writes>>
    /\ UNCHANGED bvars

Next == FixSkips \/ FixWrites \/ ReadFails \/ WriteFails \/ PrintSummary

\* one run of main() over FILES, with files that may be missing and I/O that
\* may fail
Spec == Init /\ [][Next]_vars

NextFile == FixSkips \/ FixWrites \/ PrintSummary \/ RunAgain

\* fix_file applied, run after run, to one existing file whose I/O succeeds
SpecFile == InitFile /\ [][NextFile]_vars

\* ---------------------------------------------------------- the bulk fixer
\* A path below base_path is a sequence of names; a name is a sequence of
\* atoms ("node_modules" and ".ts" are atoms of their own, so the substring
\* test and the suffix match see them wherever they stand in a name).
PathStr(path) == Flatten([k \in 1..Len(path) |-> <<"/">> \o path[k]])

FileName(path) == path[Len(path)]

\* rglob('*.ts'): the entries, files and directories, whose name ends in .ts
MatchesGlob(e) ==
    LET name == FileName(e.path)
    IN  name # <<>> /\ name[Len(name)] = ".ts"

\* 'node_modules' in str(ts_file)
Excluded(e) == Occurs(PathStr(e.path), <<"node_modules">>)

\* mutant: line 46 enabled, fix_class_properties rewrites the content: a line
\* after a decorator line gets "!" before its first ":" unless it holds "="
\* or "!"
Transform_Enabled(content) ==
    [i \in 1..Len(content) |->
        IF /\ i > 1
           /\ StripLeft(content[i - 1]) # <<>>
           /\ Head(StripLeft(content[i - 1])) = "@"
           /\ FindAtom(content[i], ":", 1) # 0
           /\ FindAtom(content[i], "=", 1) = 0
           /\ FindAtom(content[i], "!", 1) = 0
        THEN ReplaceFirst(content[i], <<":">>, <<"!", ":">>)
        ELSE content[i]]

\* lines 45-46: both calls are commented out, the content stays as read
Transform(content) == content

DecoratedProperty == << <<"@", "IsString", "(", ")">>, <<"x", ":", " ", "string", ";">> >>

Entry(path, kind, content) == [path |-> path, kind |-> kind, content |-> content]

\* the entries a tree is drawn from
Entries ==
    { Entry(<< <<"dto">>, <<"a", ".ts">> >>, "file", DecoratedProperty),
      Entry(<< <<"b", ".ts">> >>, "file", << <<"x">> >>),
      Entry(<< <<"node_modules">>, <<"pkg">>, <<"c", ".ts">> >>, "file", DecoratedProperty),
      Entry(<< <<"old_", "node_modules">>, <<"d", ".ts">> >>, "file", DecoratedProperty),
      Entry(<< <<"dto">>, <<"e", ".js">> >>, "file", DecoratedProperty),
      Entry(<< <<"f", ".ts", ".bak">> >>, "file", DecoratedProperty),
      Entry(<< <<"gen", ".ts">> >>, "dir", <<>>) }

TargetedOff ==
    /\ fs = <<>> /\ fs0 = <<>> /\ idx = 1 /\ fixed = 0 /\ out = <<>>
    /\ pc = "off" /\ runs = 0 /\ calls = <<>> /\ writes = <<>> /\ err = "none"

\* a tree of at most MaxTree entries; rglob will yield the matching ones
InitBulk ==
    /\ tree \in { t \in SUBSET Entries : Cardinality(t) <= MaxTree }
    /\ pending = { e \in tree : MatchesGlob(e) }
    /\ opened = {} /\ wopened = {}
    /\ bout = <<>> /\ berr = <<>> /\ bpc = "loop"
    /\ TargetedOff

\* mutant: no try/except, the exception ends main()
OnBulkError_Raise(e) == [bpc |-> "aborted", berr |-> berr]

\* an exception inside the try block is caught: log it and go on (lines 52-53)
OnBulkError(e) == [bpc |-> "loop", berr |-> Append(berr, e.path)]

\* if 'node_modules' in str(ts_file): continue
BulkExcluded ==
    /\ bpc = "loop"
    /\ \E e \in pending :
        /\ Excluded(e)
        /\ pending' = pending \ {e}
    /\ UNCHANGED <<tree, opened, wopened, bout, berr, bpc>>
    /\ UNCHANGED tvars

\* the file is opened and read; it is written back only if the content changed
BulkReads ==
    /\ bpc = "loop"
    /\ \E e \in pending :
        /\ ~Excluded(e)
        /\ e.kind = "file"
        /\ pending' = pending \ {e}
        /\ opened' = opened \cup {e.path}
        /\ LET original == e.content
               content == Transform(original)
           IN  IF content # original
               THEN /\ wopened' = wopened \cup {e.path}
                    /\ tree' = (tree \ {e}) \cup {[e EXCEPT !.content = content]}
                    /\ bout' = Append(bout, e.path)
               ELSE UNCHANGED <<tree, wopened, bout>>
    /\ UNCHANGED <<berr, bpc>>
    /\ UNCHANGED tvars

\* open or read raises (a directory, permissions, not UTF-8): caught, logged
BulkReadFails ==
    /\ bpc = "loop"
    /\ \E e \in pending :
        /\ ~Excluded(e)
        /\ pending' = pending \ {e}
        /\ opened' = opened \cup {e.path}
        /\ bpc' = OnBulkError(e).bpc
        /\ berr' = OnBulkError(e).berr
    /\ UNCHANGED <<tree, wopened, bout>>
    /\ UNCHANGED tvars

\* rglob is exhausted: main() returns
BulkDone ==
    /\ bpc = "loop"
    /\ pending = {}
    /\ bpc' = "done"
    /\ UNCHANGED <<tree, pending, opened, wopened, bout, berr>>
    /\ UNCHANGED tvars

NextBulk == BulkExcluded \/ BulkReads \/ BulkReadFails \/ BulkDone

\* main() of the bulk fixer over a tree
SpecBulk == InitBulk /\ [][NextBulk]_vars

\* ------------------------------------------------------ claims: vocabulary
\* the files fix_file has been called on and has returned from
Ran(f) == calls[f] >= 1

\* the names of the Prisma import list of a content ({} without such a list)
ImportedNames(content) ==
    IF prisma_import_match(content).ok
    THEN { prisma_enums(content)[k] : k \in DOMAIN prisma_enums(content) } \ {<<>>}
    ELSE {}

\* the identifier n is the whole first argument of some @IsEnum( call
FirstArgOfIsEnum(content, n) ==
    \E i \in 1..Len(content) :
        /\ OccursAt(content, <<"@", "IsEnum", "(">> \o n, i)
        /\ ~IsWordAtom(At(content, i + 3 + Len(n)))

CountOcc(s, pat) == Cardinality({i \in 1..Len(s) : OccursAt(s, pat, i)})

DeclText(n) ==
    <<"const", " ">> \o n \o <<"Values", " ", "= Object.values(">> \o n
        \o <<") as string[]", ";", "\n">>

IsInCall(n) == <<"@", "IsIn", "(">> \o n \o <<"Values">>

\* the name lists of the braced imports from 'class-validator' in a content
ValidatorLists(content) ==
    { SubSeq(content,
             ImportListMatchAt(content, i, "'class-validator'").lbrace + 1,
             ImportListMatchAt(content, i, "'class-validator'").rbrace - 1) :
        i \in { j \in 1..Len(content) :
                  ImportListMatchAt(content, j, "'class-validator'").ok } }

EndsWith(s, tail) == OccursAt(s, tail, Len(s) - Len(tail) + 1)

\* ---------------------------------------------------------------- claims
\* C1: running fix_file again on a file it has already processed leaves the
\* content as the first run left it, and the file never holds a second
\* "IsIn," import entry or a second constant block.
C1_Idempotent ==
    /\ [][\A f \in DOMAIN fs : Ran(f) => fs'[f] = fs[f]]_vars
    /\ [](\A f \in DOMAIN fs :
            Ran(f) =>
              /\ CountOcc(fs[f].content, <<"IsIn", ",", "\n", "}">>) <= 1
              /\ CountOcc(fs[f].content, <<ConstComment>>) <= 1)

\* C1 witness: a second run that reached the write again (an @IsEnum usage in
\* an unsupported shape remained) after a first run that changed the file.
C1_Witness ==
    /\ pc = "done" /\ runs = 2
    /\ 1 \in DOMAIN fs
    /\ writes[1] = 2
    /\ fs[1] # fs0[1]
    /\ Occurs(fs[1].content, <<ConstComment>>)
    /\ Occurs(fs[1].content, <<"IsIn", ",", "\n", "}">>)

\* C2 (as claimed): once fix_file has run on a file that imports a name list
\* from '@prisma/client' and uses @IsEnum(Foo) for an imported Foo, the file
\* declares const FooValues = Object.values(Foo) as string[];, no @IsEnum(Foo)
\* is left, and every @IsIn(XValues) the run wrote has its const XValues.
C2_ConstantDeclared ==
    \A f \in DOMAIN fs :
        Ran(f) =>
          /\ \A n \in ImportedNames(fs0[f].content) :
                Occurs(fs0[f].content, <<"@", "IsEnum", "(">> \o n \o <<")">>) =>
                  /\ Occurs(fs[f].content, DeclText(n))
                  /\ ~Occurs(fs[f].content, <<"@", "IsEnum", "(">> \o n \o <<")">>)
                  /\ Occurs(fs[f].content, IsInCall(n) \o <<")">>)
          /\ \A n \in ImportedNames(fs0[f].content) :
                (Occurs(fs[f].content, IsInCall(n)) /\ ~Occurs(fs0[f].content, IsInCall(n))) =>
                  Occurs(fs[f].content, <<"const", " ">> \o n \o <<"Values">>)

\* C3 (as claimed): an imported name that is never the first argument of
\* @IsEnum is not among the enum identifiers to fix and gets no constant,
\* also when a longer imported name that is used starts with it.
C3_UnusedUntouched ==
    \A f \in DOMAIN fs :
        Ran(f) =>
          \A n \in ImportedNames(fs0[f].content) :
            ~FirstArgOfIsEnum(fs0[f].content, n) =>
              /\ \A k \in DOMAIN enums_to_fix(fs0[f].content) :
                    enums_to_fix(fs0[f].content)[k] # n
              /\ Occurs(fs[f].content, DeclText(n)) => Occurs(fs0[f].content, DeclText(n))

\* C4 (as claimed): every array-form usage the pattern accepts becomes
\* @IsIn(FooValues, <opts>) with the text of the option object as it stood.
C4_OptionsVerbatim ==
    \A f \in DOMAIN fs :
        Ran(f) =>
          \A n \in ImportedNames(fs0[f].content) :
            \A i \in 1..Len(fs0[f].content) :
              LET c0 == fs0[f].content
                  e  == ArrayMatchEnd(c0, i, n)
                  lb == SkipWs(c0, i + 4 + Len(n))
              IN  e # 0 =>
                    Occurs(fs[f].content,
                           IsInCall(n) \o <<",", " ">> \o SubSeq(c0, lb, e - 1) \o <<")">>)

\* the usages @IsEnum(n, {each:true}) in any layout of whitespace from the
\* comma to the closing brace, found without the model of the pattern
IsArrayUsageAt(c, i, n) ==
    /\ OccursAt(c, <<"@", "IsEnum", "(">> \o n \o <<",">>, i)
    /\ \E e \in (i + 1)..Len(c) :
          /\ c[e] = ")"
          /\ c[e - 1] = "}"
          /\ SelectSeq(SubSeq(c, i + 4 + Len(n), e - 1), LAMBDA a : ~IsWs(a))
               = <<"{", "each", ":", "true", "}">>
          /\ \E k \in (i + 4 + Len(n))..(e - 1) : c[k] = "each" /\ c[k + 1] = ":"

\* C4 (amended): every array-form usage the pattern accepts becomes
\* @IsIn(FooValues, { each: true }): the option object is written in this one
\* layout, whatever whitespace the usage had, and no such usage is left.
C4_OptionsCanonical ==
    \A f \in DOMAIN fs :
        Ran(f) =>
          \A n \in ImportedNames(fs0[f].content) :
            /\ (\E i \in 1..Len(fs0[f].content) : IsArrayUsageAt(fs0[f].content, i, n)) =>
                  Occurs(fs[f].content,
                         IsInCall(n) \o <<",", " ", "{", " ", "each", ":", " ", "true",
                                          " ", "}", ")">>)
            /\ \A i \in 1..Len(fs[f].content) : ~IsArrayUsageAt(fs[f].content, i, n)

\* C4 witness: a processed file that had @IsEnum(Foo,{each:true}) and now has
\* the call with the option object respaced.
C4_Witness ==
    /\ 1 \in DOMAIN fs
    /\ Ran(1)
    /\ Occurs(fs0[1].content,
              <<"@", "IsEnum", "(", "Foo", ",", "{", "each", ":", "true", "}", ")">>)
    /\ <<"Foo">> \in ImportedNames(fs0[1].content)
    /\ Occurs(fs[1].content,
              <<"@", "IsIn", "(", "Foo", "Values", ",", " ", "{", " ", "each", ":", " ",
                "true", " ", "}", ")">>)

\* the step appends a line of the given kind to standard output
Prints(kind) ==
    /\ Len(out') = Len(out) + 1
    /\ out'[Len(out')].kind = kind

FixedLines == {k \in 1..Len(out) : out[k].kind = "FIXED"}

\* C5: a call of fix_file that reports SKIP writes nothing: the disk is the
\* same after it, no write_text happened, the counter is not incremented; the
\* summary counts exactly the files reported FIXED.
C5_SkipLeavesFile ==
    /\ [][Prints("SKIP") => (fs' = fs /\ writes' = writes /\ fixed' = fixed)]_vars
    /\ [](pc = "done" => out[Len(out)].n = Cardinality(FixedLines))

\* C5 witness: a finished run that skipped a file for a missing name list and
\* fixed another one.
C5_Witness ==
    /\ pc = "done"
    /\ \E k \in 1..Len(out) : out[k].msg = "SKIP: no Prisma enum imports"
    /\ \E k \in 1..Len(out) : out[k].msg = "SKIP: not found"
    /\ FixedLines # {}

\* C6 (as claimed): a call of fix_file that leaves the content as it was has
\* not written the file, has not reported FIXED and is not counted.
C6_WriteOnlyIfChanged ==
    [][\A f \in DOMAIN fs :
          (calls'[f] = calls[f] + 1 /\ fs'[f] = fs[f]) =>
             (writes'[f] = writes[f] /\ ~Prints("FIXED") /\ fixed' = fixed)]_vars

\* C9 (as claimed): for a file that passed the skip checks, if IsIn was not
\* referenced and the file has a braced import list from 'class-validator',
\* IsIn stands exactly once in that list, last before the closing brace; if
\* IsIn was referenced the lists are as they were; and such a file, when it
\* calls @IsIn(, imports IsIn.
C9_IsInImported ==
    \A f \in DOMAIN fs :
        writes[f] >= 1 =>
          /\ (~IsInReferenced(fs0[f].content) /\ ValidatorLists(fs0[f].content) # {}) =>
                \E l \in ValidatorLists(fs[f].content) :
                    /\ CountOcc(l, <<"IsIn">>) = 1
                    /\ EndsWith(StripRight(l), <<"IsIn", ",">>)
          /\ IsInReferenced(fs0[f].content) =>
                ValidatorLists(fs[f].content) = ValidatorLists(fs0[f].content)
          /\ (ValidatorLists(fs0[f].content) # {} /\ Occurs(fs[f].content, <<"@", "IsIn", "(">>)) =>
                \E l \in ValidatorLists(fs[f].content) : Occurs(l, <<"IsIn">>)

\* C10: an exception in fix_file ends the run: the loop only advances past a
\* file whose fix_file returned; once aborted nothing is read, written or
\* printed in that run, so no summary line and no status line of a file at or
\* after the failing position; in a first run the later files are as they
\* were on disk and the earlier ones keep what was written to them.
C10_ExceptionAborts ==
    /\ [][(pc = "loop" /\ pc' = "loop" /\ idx' # idx) =>
             (idx' = idx + 1 /\ calls'[idx] = calls[idx] + 1)]_vars
    /\ [][pc = "aborted" => (fs' = fs /\ calls' = calls /\ writes' = writes
                              /\ (out' = out \/ runs' = runs + 1))]_vars
    /\ [](pc = "aborted" =>
            /\ idx \in DOMAIN fs
            /\ \A k \in 1..Len(out) : out[k].kind # "SUMMARY" /\ out[k].file < idx
            /\ runs = 1 =>
                 /\ \A j \in DOMAIN fs :
                       j >= idx => (calls[j] = 0 /\ writes[j] = 0 /\ fs[j] = fs0[j])
                 /\ \A j \in DOMAIN fs :
                       (j < idx /\ \E k \in 1..Len(out) : out[k].kind = "FIXED" /\ out[k].file = j)
                          => (writes[j] = 1 /\ fs[j].content = EditContent(fs0[j].content)))

\* C10 witness: a first run aborted at the second file, after the first file
\* was rewritten and with a third file still to come.
C10_Witness ==
    /\ pc = "aborted" /\ runs = 1 /\ idx = 2 /\ err = "read_text"
    /\ 3 \in DOMAIN fs
    /\ writes[1] = 1 /\ fs[1] # fs0[1]
    /\ fs[3].exists

\* the entries rglob yields and the loop does not skip, said without the
\* model of the two tests: the last atom of the name is ".ts" and no name of
\* the path holds "node_modules"
Selected(e) ==
    /\ e.path[Len(e.path)][Len(e.path[Len(e.path)])] = ".ts"
    /\ \A k \in 1..Len(e.path) : \A a \in 1..Len(e.path[k]) : e.path[k][a] # "node_modules"

\* C7: a failing read never ends the bulk run: it is never aborted, every
\* failure is a line of standard error naming a path that was tried, and when
\* the run is done every selected entry has been tried.
C7_BulkContinues ==
    /\ bpc \in {"off", "loop", "done"}
    /\ \A k \in 1..Len(berr) : berr[k] \in opened
    /\ \A e \in tree : (e.kind = "dir" /\ e.path \in opened) => \E k \in 1..Len(berr) : berr[k] = e.path
    /\ bpc = "done" => opened = { e.path : e \in { x \in tree : Selected(x) } }

\* C7 witness: a finished run in which the read of one file failed and another
\* file was read.
C7_Witness ==
    /\ bpc = "done"
    /\ \E e \in tree : e.kind = "file" /\ \E k \in 1..Len(berr) : berr[k] = e.path
    /\ \E e \in tree : e.path \in opened /\ \A k \in 1..Len(berr) : berr[k] # e.path

\* C8: only selected files are opened for reading (all of them once the run is
\* done), no file is opened for writing, no Fixed: line is printed and the
\* tree keeps its contents.
C8_BulkNoOp ==
    /\ \A e \in tree : (e.kind = "file" /\ e.path \in opened) => Selected(e)
    /\ bpc = "done" => \A e \in tree : (e.kind = "file" /\ Selected(e)) => e.path \in opened
    /\ wopened = {}
    /\ bout = <<>>
    /\ tree \subseteq Entries

\* C8 witness: a finished run over a tree with a selected file whose decorated
\* property the disabled transformation would rewrite, an excluded file and a
\* file that does not match.
C8_Witness ==
    /\ bpc = "done"
    /\ \E e \in tree : e.kind = "file" /\ Selected(e) /\ e.path \in opened
                        /\ e.content = DecoratedProperty /\ berr = <<>>
    /\ \E e \in tree : e.kind = "file" /\ ~Selected(e) /\ MatchesGlob(e)
    /\ \E e \in tree : ~MatchesGlob(e)

=============================================================================
